---- MODULE Spec2Model ----
(***************************************************************************)
(* Model of clean_pdf (src/pdftoexcel.py): the cleaning pipeline that      *)
(* turns the tables extracted from a bank-statement PDF into the Cleaned,  *)
(* Debit and Credit sheets.                                                *)
(*                                                                         *)
(* A cell text is a sequence of tokens.  Digits and punctuation are one    *)
(* token per character; a word is one token (stage "merge" joins texts     *)
(* with a space, so a substring can only be completed at a word            *)
(* boundary).  Numbers are held in hundredths (Scale).                     *)
(***************************************************************************)
EXTENDS Integers, Sequences, FiniteSets, Bags, TLC

\* ------------------------------------------------------------------ bounds
\* rows of an input whose table has the schema's width
MaxRows == 3
\* rows of an input with a table of another width
MaxOddRows == 2
\* columns of the widest table
MaxCols == 11

\* ------------------------------------------------------- program constants
SchemaCols == 10
AddInfoPos == 5
Scale == 100

\* ------------------------------------------------------------- cell values
Str(t) == [k |-> "str", v |-> t]
NaN == [k |-> "null", v |-> <<>>]
Num(n) == [k |-> "num", v |-> <<n>>]
Date(y, m, d) == [k |-> "date", v |-> <<y, m, d>>]

notna(c) == c.k # "null"

\* str(x) / Series.astype(str) on the cells the pipeline stringifies
astype_str(c) ==
  CASE c.k = "str" -> c.v
    [] c.k = "null" -> <<"nan">>

\* ------------------------------------------------------------ text helpers
Digits == {"0", "1", "2", "3", "4", "5", "6", "7", "8", "9"}

DigitVal(t) ==
  CASE t = "0" -> 0 [] t = "1" -> 1 [] t = "2" -> 2 [] t = "3" -> 3
    [] t = "4" -> 4 [] t = "5" -> 5 [] t = "6" -> 6 [] t = "7" -> 7
    [] t = "8" -> 8 [] t = "9" -> 9

lower_token(t) ==
  CASE t = "Table" -> "table"
    [] t = "From" -> "from"
    [] t = "Page" -> "page"
    [] t = "Additional" -> "additional"
    [] t = "Information" -> "information"
    [] t = "Payment" -> "payment"
    [] t = "Acme" -> "acme"
    [] t = "REF" -> "ref"
    [] t = "TOTAL" -> "total"
    [] OTHER -> t

lower(t) == [j \in DOMAIN t |-> lower_token(t[j])]

\* str.strip(): leading and trailing whitespace removed
RECURSIVE lstrip(_)
lstrip(t) ==
  IF t # <<>> /\ Head(t) = " " THEN lstrip(Tail(t)) ELSE t

RECURSIVE rstrip(_)
rstrip(t) ==
  IF t # <<>> /\ t[Len(t)] = " " THEN rstrip(SubSeq(t, 1, Len(t) - 1)) ELSE t

strip(t) == rstrip(lstrip(t))

\* str.replace(old, ""), old a single character
remove_char(t, ch) == SelectSeq(t, LAMBDA x : x # ch)

\* substring test
find(t, pat) ==
  \E o \in 0..(Len(t) - Len(pat)) : SubSeq(t, o + 1, o + Len(pat)) = pat

\* str.contains(pat, case=False)
contains_nocase(t, pat) == find(lower(t), lower(pat))

\* -------------------------------------------------------- value conversion
RECURSIVE IntVal(_)
IntVal(t) ==
  IF t = <<>> THEN 0
  ELSE IntVal(SubSeq(t, 1, Len(t) - 1)) * 10 + DigitVal(t[Len(t)])

AllDigits(t) == \A j \in DOMAIN t : t[j] \in Digits

\* the fractional digits, in hundredths
FracVal(t) ==
  CASE Len(t) = 0 -> 0
    [] Len(t) = 1 -> DigitVal(t[1]) * (Scale \div 10)
    [] Len(t) = 2 -> DigitVal(t[1]) * (Scale \div 10) + DigitVal(t[2])

\* pd.to_numeric(text, errors="coerce") of one text
to_numeric(t) ==
  LET dots == {j \in DOMAIN t : t[j] = "."}
      dot == IF dots = {} THEN Len(t) + 1 ELSE CHOOSE j \in dots : TRUE
      whole == SubSeq(t, 1, dot - 1)
      frac == SubSeq(t, dot + 1, Len(t))
  IN IF /\ Cardinality(dots) <= 1
        /\ AllDigits(whole) /\ AllDigits(frac)
        /\ Len(whole) + Len(frac) > 0
     THEN Num(IntVal(whole) * Scale + FracVal(frac))
     ELSE NaN

\* the thousands separators left in
coerce_numeric_keeping_commas(c) == to_numeric(strip(astype_str(c)))

\* line 60: astype(str).str.replace(",", "").str.strip(), then to_numeric
coerce_numeric(c) == to_numeric(strip(remove_char(astype_str(c), ",")))

IsLeap(y) == (y % 4 = 0 /\ y % 100 # 0) \/ y % 400 = 0

DaysIn(m, y) ==
  CASE m \in {1, 3, 5, 7, 8, 10, 12} -> 31
    [] m \in {4, 6, 9, 11} -> 30
    [] m = 2 -> IF IsLeap(y) THEN 29 ELSE 28

\* pd.to_datetime(text, errors="coerce", dayfirst=True).date() of one
\* day/month/year text
to_datetime(c) ==
  IF c.k # "str" THEN NaN
  ELSE
    LET t == c.v
        sl == {j \in DOMAIN t : t[j] = "/"}
    IN IF Cardinality(sl) # 2 THEN NaN
       ELSE
         LET s1 == CHOOSE j \in sl : \A q \in sl : j <= q
             s2 == CHOOSE j \in sl : \A q \in sl : j >= q
             dd == SubSeq(t, 1, s1 - 1)
             mm == SubSeq(t, s1 + 1, s2 - 1)
             yy == SubSeq(t, s2 + 1, Len(t))
         IN IF /\ dd # <<>> /\ mm # <<>> /\ yy # <<>>
               /\ AllDigits(dd) /\ AllDigits(mm) /\ AllDigits(yy)
               /\ IntVal(mm) \in 1..12
               /\ IntVal(dd) >= 1
               /\ IntVal(dd) <= DaysIn(IntVal(mm), IntVal(yy))
            THEN Date(IntVal(yy), IntVal(mm), IntVal(dd))
            ELSE NaN

\* ------------------------------------------------------------------ frames
\* A DataFrame: its column labels and its rows; a row has its index label
\* and one cell per column.
Frame(cols, rows) == [columns |-> cols, rows |-> rows]
Row(label, cells) == [idx |-> label, cells |-> cells]

RangeIndex(n) == [j \in 1..n |-> j - 1]

\* index=... renumbered 0..n-1 (ignore_index=True, reset_index(drop=True))
renumber(rows) == [j \in DOMAIN rows |-> Row(j - 1, rows[j].cells)]

ColumnNames ==
  << "No.", "Value Date", "Tran Type", "Tran Ref", "Participant",
     "Additional Information", "DR", "Amount_DR", "CR", "Amount_CR" >>

\* position (1-based) of a column label
col_pos(cols, name) == CHOOSE j \in DOMAIN cols : cols[j] = name

\* df.iloc[:, p], p the 0-based position of the source
iloc(r, p) == r.cells[p + 1]

\* ---------------------------------------------------------- pipeline steps
Max(S) == CHOOSE x \in S : \A y \in S : y <= x

\* line 18: pd.concat(df_list, ignore_index=True); the columns are the union
\* of the tables' columns, a row of a narrower table is padded with NaN
concat(df_list) ==
  LET w == Max({df_list[t].ncols : t \in DOMAIN df_list})
      pad(cells) == [j \in 1..w |-> IF j <= Len(cells) THEN cells[j] ELSE NaN]
      RECURSIVE flat(_)
      flat(l) == IF l = <<>> THEN <<>>
                 ELSE [j \in DOMAIN Head(l).rows |-> pad(Head(l).rows[j])]
                      \o flat(Tail(l))
      all == flat(df_list)
  IN Frame(RangeIndex(w), [j \in DOMAIN all |-> Row(j - 1, all[j])])

\* the truncation left out
keep_all_columns(d) == d

\* line 21: df.iloc[:, :10]
keep_first_columns(d) ==
  LET w == IF Len(d.columns) < SchemaCols THEN Len(d.columns) ELSE SchemaCols
  IN Frame(SubSeq(d.columns, 1, w),
           [j \in DOMAIN d.rows |->
              Row(d.rows[j].idx, SubSeq(d.rows[j].cells, 1, w))])

\* line 24: df.columns = [...] raises ValueError on a length mismatch
rename_fails(d) == Len(d.columns) # Len(ColumnNames)
rename_columns(d) == Frame(ColumnNames, d.rows)

MarkerText == <<"table", " ", "from", " ", "page">>
HeaderText == <<"Additional">>

\* the marker matched with its case
remove_marker_rows_case_sensitive(d) ==
  Frame(d.columns,
        SelectSeq(d.rows, LAMBDA r :
          ~\E j \in DOMAIN r.cells : find(astype_str(r.cells[j]), MarkerText)))

\* line 38
is_marker_row(r) ==
  \E j \in DOMAIN r.cells : contains_nocase(astype_str(r.cells[j]), MarkerText)

remove_marker_rows(d) == 
  Frame(d.columns, SelectSeq(d.rows, LAMBDA r : ~is_marker_row(r)))

\* line 41: dropna(how="all")
all_na(r) == \A j \in DOMAIN r.cells : ~notna(r.cells[j])

\* line 42
all_blank(r) == \A j \in DOMAIN r.cells : strip(astype_str(r.cells[j])) = <<>>

remove_blank_rows(d) ==
  Frame(d.columns,
        SelectSeq(SelectSeq(d.rows, LAMBDA r : ~all_na(r)),
                  LAMBDA r : ~all_blank(r)))

\* line 45
is_header_row(r) == contains_nocase(astype_str(iloc(r, 0)), HeaderText)

remove_header_rows(d) == 
  Frame(d.columns, SelectSeq(d.rows, LAMBDA r : ~is_header_row(r)))

\* lines 51-52: only column F has a value
is_continuation(r) ==
  LET non_empty == {j \in DOMAIN r.cells : strip(astype_str(r.cells[j])) # <<>>}
  IN Cardinality(non_empty) = 1 /\ (AddInfoPos + 1) \in non_empty

\* line 53: df.iat[i-1, 5] = str(df.iat[i-1, 5]) + " " + str(row.iloc[5]),
\* i the 0-based position of the continuation row
merge_target(i) == i - 1

merge_up(d, i) ==
  LET t == merge_target(i) + 1
      text == astype_str(iloc(d.rows[t], AddInfoPos)) \o <<" ">>
              \o astype_str(iloc(d.rows[i + 1], AddInfoPos))
  IN Frame(d.columns,
           [d.rows EXCEPT ![t].cells[AddInfoPos + 1] = Str(text)])

\* the labels taken for positions
drop_rows_by_position(d, labels) ==
  LET keep == {j \in DOMAIN d.rows : \A q \in DOMAIN labels : labels[q] # j - 1}
  IN Frame(d.columns,
           [q \in 1..Cardinality(keep) |->
              d.rows[CHOOSE j \in keep : Cardinality({u \in keep : u < j}) = q - 1]])

\* line 55: df.drop(labels)
drop_rows(d, labels) ==
  Frame(d.columns,
        SelectSeq(d.rows, LAMBDA r : \A q \in DOMAIN labels : labels[q] # r.idx))

\* lines 58-60
num_cols == <<"DR", "Amount_DR", "CR", "Amount_CR", "No.", "Tran Type">>

coerce_columns(d) ==
  LET ps == {col_pos(d.columns, num_cols[q]) : q \in DOMAIN num_cols}
  IN Frame(d.columns,
           [j \in DOMAIN d.rows |->
              Row(d.rows[j].idx,
                  [c \in DOMAIN d.rows[j].cells |->
                     IF c \in ps THEN coerce_numeric(d.rows[j].cells[c])
                     ELSE d.rows[j].cells[c]])])

\* line 63
parse_dates(d) ==
  LET p == col_pos(d.columns, "Value Date")
  IN Frame(d.columns,
           [j \in DOMAIN d.rows |->
              Row(d.rows[j].idx,
                  [d.rows[j].cells EXCEPT ![p] = to_datetime(d.rows[j].cells[p])])])

\* -------------------------------------------------------------- the views
\* the rows selected on the amount column
select_amount_notna(d, p) == 
  Frame(d.columns, SelectSeq(d.rows, LAMBDA r : notna(iloc(r, p + 1))))

\* lines 66, 78: df[df.iloc[:, p].notna()].copy()
select_notna(d, p) == 
  Frame(d.columns, SelectSeq(d.rows, LAMBDA r : notna(iloc(r, p))))

Perms(n) == {f \in [1..n -> 1..n] : \A a, b \in 1..n : a # b => f[a] # f[b]}

\* the sort left out
unsorted_orders(rows, p) == {[j \in 1..Len(rows) |-> j]}

\* lines 67, 79: sort_values(by=column, ascending=True).  The orders the
\* sort may produce: the rows with a value come first, by value (rows of
\* equal value in any order: the default sort is not stable), the rows
\* without a value come last, in their original order.
sort_orders(rows, p) ==
  {f \in Perms(Len(rows)) :
     \A a, b \in 1..Len(rows) : a < b =>
        LET x == iloc(rows[f[a]], p)
            y == iloc(rows[f[b]], p)
        IN /\ notna(y) => notna(x) /\ x.v[1] <= y.v[1]
           /\ (~notna(x) /\ ~notna(y)) => f[a] < f[b]}

reorder(d, f) == Frame(d.columns, [j \in DOMAIN d.rows |-> d.rows[f[j]]])

\* the count taken on the amount column
count_amount_col(rows, p) ==
  Cardinality({j \in DOMAIN rows : notna(iloc(rows[j], p + 1))}) * Scale

\* lines 71, 83: Series.count()
count_col(rows, p) ==
  Cardinality({j \in DOMAIN rows : notna(iloc(rows[j], p))}) * Scale

\* lines 72, 84: Series.sum(), NaN skipped
RECURSIVE sum_col(_, _)
sum_col(rows, p) ==
  IF rows = <<>> THEN 0
  ELSE (IF notna(iloc(Head(rows), p)) THEN iloc(Head(rows), p).v[1] ELSE 0)
       + sum_col(Tail(rows), p)

\* lines 69-74, 81-86: the total row, appended with ignore_index=True; the
\* columns the total does not set are NaN
append_total(d, pFlag, pAmount) ==
  LET total == [j \in DOMAIN d.columns |->
                  CASE j = 1 -> Str(<<"TOTAL">>)
                    [] j = pFlag + 1 -> Num(count_col(d.rows, pFlag))
                    [] j = pAmount + 1 -> Num(sum_col(d.rows, pAmount))
                    [] OTHER -> NaN]
  IN Frame(d.columns, renumber(Append(d.rows, Row(0, total))))

\* lines 75, 87: drop(columns=[...]), given the 0-based positions
drop_columns(d, ps) ==
  LET keep == {j \in DOMAIN d.columns : (j - 1) \notin ps}
      pick(x) == [q \in 1..Cardinality(keep) |->
                    x[CHOOSE j \in keep :
                        Cardinality({u \in keep : u < j}) = q - 1]]
  IN Frame(pick(d.columns),
           [j \in DOMAIN d.rows |-> Row(d.rows[j].idx, pick(d.rows[j].cells))])

DebitFlag == 6
DebitAmount == 7
CreditFlag == 8
CreditAmount == 9

\* the result of reset_index not assigned
reset_index_discarded(d) == d

\* line 90
reset_index(d) == Frame(d.columns, renumber(d.rows))

\* lines 97-100: to_excel(index=False): the header and the cells
sheet(d) == [header |-> d.columns, rows |-> [j \in DOMAIN d.rows |-> d.rows[j].cells]]

\* ----------------------------------------------------------------- inputs
Blank == Str(<<>>)
Text(w) == Str(<<w>>)

\* a debit transaction
RowDebit ==
  << Text("1"), Str(<<"0", "1", "/", "0", "2", "/", "2", "0", "2", "4">>),
     Str(<<"1", "0", "0">>), Text("REF"), Text("Acme"), Text("Payment"),
     Text("1"), Str(<<"5", "0", ".", "0", "0">>), Blank, Blank >>

\* a transaction with both flags, a note ending in "table from" and an
\* unparseable date
RowBoth ==
  << Text("2"), Text("junk"), Str(<<"1", "0", "0">>), Text("REF"),
     Text("Acme"), Str(<<"see", " ", "table", " ", "from">>),
     Text("1"), Text("7"),
     Text("1"), Str(<<"1", ",", "2", "5", "0", ".", "5", "0">>) >>

\* the wrapped rest of a note
RowNote ==
  << Blank, Blank, Blank, Blank, Blank, Str(<<"page", " ", "2">>),
     Blank, Blank, Blank, Blank >>

\* the page marker of the extraction
RowMarker ==
  << Str(<<"Table", " ", "From", " ", "Page", " ", "2">>),
     Blank, Blank, Blank, Blank, Blank, Blank, Blank, Blank, Blank >>

RowBlank ==
  << Blank, Blank, Str(<<" ">>), Blank, Blank, Blank, Blank, Blank, Blank, Blank >>

\* a repeated header fragment
RowHeader ==
  << Str(<<"Additional", " ", "Information">>), Blank, Blank, Blank, Blank,
     Blank, Text("DR"), Blank, Text("CR"), Blank >>

\* a transaction with unparseable No. and debit amount
RowDirty ==
  << Text("abc"), Blank, Blank, Blank, Blank, Blank,
     Str(<<" ", "1">>), Text("abc"), Text("1"), Text("7") >>

Templates ==
  {RowDebit, RowBoth, RowNote, RowMarker, RowBlank, RowHeader, RowDirty}

Widths == (SchemaCols - 1)..MaxCols

\* a row as a table of w columns holds it
Fit(r, w) == [j \in 1..w |-> IF j <= Len(r) THEN r[j] ELSE Text("x")]

\* t.df of one extracted table
Table(w, rs) == [ncols |-> w, rows |-> [j \in DOMAIN rs |-> Fit(rs[j], w)]]

RowSeqs(n) == UNION {[1..k -> Templates] : k \in 1..n}

\* what camelot.read_pdf returned: no table; one table of the schema's
\* width; one table of another width; or the first row on a page of its
\* own, in a table one column wider or narrower than the next
Inputs ==
  {<<>>}
  \cup {<<Table(SchemaCols, rs)>> : rs \in RowSeqs(MaxRows)}
  \cup {<<Table(w, rs)>> : w \in Widths \ {SchemaCols}, rs \in RowSeqs(MaxOddRows)}
  \cup {<<Table(w[1], <<rs[1]>>), Table(w[2], Tail(rs))>> :
          w \in {x \in Widths \X Widths : x[1] - x[2] \in {-1, 1}},
          rs \in {x \in RowSeqs(MaxOddRows) : Len(x) >= 2}}

\* ------------------------------------------------------------------ state
VARIABLES
  pc,            \* the statement clean_pdf is at
  tables,        \* df_list, the extracted tables
  df,            \* the working frame
  i,             \* the loop variable of the continuation scan
  rows_to_drop,  \* labels of the continuation rows found
  df_debit,
  df_credit,
  raised,        \* the exception that ended the call, or "none"
  workbook       \* the sheets written, <<>> before the save

vars == <<pc, tables, df, i, rows_to_drop, df_debit, df_credit, raised, workbook>>

NoFrame == Frame(<<>>, <<>>)

Init ==
  /\ tables \in Inputs
  /\ pc = "concat"
  /\ df = NoFrame
  /\ i = 0
  /\ rows_to_drop = <<>>
  /\ df_debit = NoFrame
  /\ df_credit = NoFrame
  /\ raised = "none"
  /\ workbook = <<>>

Raise(e) ==
  /\ pc' = "raised"
  /\ raised' = e
  /\ UNCHANGED <<tables, df, i, rows_to_drop, df_debit, df_credit, workbook>>

Assign(d, l) ==
  /\ df' = d
  /\ pc' = l
  /\ UNCHANGED <<tables, i, rows_to_drop, df_debit, df_credit, raised, workbook>>

\* lines 16-18: pd.concat raises ValueError when there is no table
Concat ==
  /\ pc = "concat"
  /\ IF tables = <<>> THEN Raise("ValueError")
     ELSE Assign(concat(tables), "truncate")

\* line 21
Truncate ==
  /\ pc = "truncate"
  /\ Assign(keep_first_columns(df), "rename")

\* lines 24-35
Rename ==
  /\ pc = "rename"
  /\ IF rename_fails(df) THEN Raise("ValueError")
     ELSE Assign(rename_columns(df), "markers")

\* line 38
RemoveMarkers ==
  /\ pc = "markers"
  /\ Assign(remove_marker_rows(df), "blanks")

\* lines 41-42
RemoveBlanks ==
  /\ pc = "blanks"
  /\ Assign(remove_blank_rows(df), "headers")

\* lines 45, 48
RemoveHeaders ==
  /\ pc = "headers"
  /\ df' = remove_header_rows(df)
  /\ rows_to_drop' = <<>>
  /\ i' = 1
  /\ pc' = "scan"
  /\ UNCHANGED <<tables, df_debit, df_credit, raised, workbook>>

\* lines 49-54: one pass of the loop body
Scan ==
  /\ pc = "scan"
  /\ i < Len(df.rows)
  /\ IF is_continuation(df.rows[i + 1])
     THEN /\ df' = merge_up(df, i)
          /\ rows_to_drop' = Append(rows_to_drop, df.rows[i + 1].idx)
     ELSE UNCHANGED <<df, rows_to_drop>>
  /\ i' = i + 1
  /\ UNCHANGED <<pc, tables, df_debit, df_credit, raised, workbook>>

\* line 55
Drop ==
  /\ pc = "scan"
  /\ i >= Len(df.rows)
  /\ df' = drop_rows(df, rows_to_drop)
  /\ pc' = "numeric"
  /\ UNCHANGED <<tables, i, rows_to_drop, df_debit, df_credit, raised, workbook>>

\* lines 58-60
ToNumeric ==
  /\ pc = "numeric"
  /\ Assign(coerce_columns(df), "dates")

\* line 63
ToDate ==
  /\ pc = "dates"
  /\ Assign(parse_dates(df), "debit")

\* lines 66-75
Debit ==
  /\ pc = "debit"
  /\ LET sel == select_notna(df, DebitFlag)
     IN \E f \in sort_orders(sel.rows, DebitAmount) :
          df_debit' = drop_columns(
                        append_total(reorder(sel, f), DebitFlag, DebitAmount),
                        {CreditFlag, CreditAmount})
  /\ pc' = "credit"
  /\ UNCHANGED <<tables, df, i, rows_to_drop, df_credit, raised, workbook>>

\* lines 78-87
Credit ==
  /\ pc = "credit"
  /\ LET sel == select_notna(df, CreditFlag)
     IN \E f \in sort_orders(sel.rows, CreditAmount) :
          df_credit' = drop_columns(
                         append_total(reorder(sel, f), CreditFlag, CreditAmount),
                         {DebitFlag, DebitAmount})
  /\ pc' = "reset"
  /\ UNCHANGED <<tables, df, i, rows_to_drop, df_debit, raised, workbook>>

\* line 90
ResetIndex ==
  /\ pc = "reset"
  /\ Assign(reset_index(df), "save")

\* lines 97-102
Save ==
  /\ pc = "save"
  /\ workbook' = [Cleaned |-> sheet(df), Debit |-> sheet(df_debit),
                  Credit |-> sheet(df_credit)]
  /\ pc' = "done"
  /\ UNCHANGED <<tables, df, i, rows_to_drop, df_debit, df_credit, raised>>

Next ==
  \/ Concat \/ Truncate \/ Rename
  \/ RemoveMarkers \/ RemoveBlanks \/ RemoveHeaders
  \/ Scan \/ Drop
  \/ ToNumeric \/ ToDate
  \/ Debit \/ Credit
  \/ ResetIndex \/ Save

Spec == Init /\ [][Next]_vars

\* ================================================================== claims
\* What the input looked like at each stage, read off the extracted tables.

RECURSIVE RawRows(_)
RawRows(l) == IF l = <<>> THEN <<>> ELSE Head(l).rows \o RawRows(Tail(l))

RawCols == IF tables = <<>> THEN 0 ELSE Max({tables[t].ncols : t \in DOMAIN tables})

\* row j of the concatenated table cut to the schema: the first cells of the
\* raw row, NaN where its table was narrower than the widest
CutRow(j) ==
  LET c == RawRows(tables)[j]
  IN [q \in 1..SchemaCols |-> IF q <= Len(c) THEN c[q] ELSE NaN]

CutRows == [j \in DOMAIN RawRows(tables) |-> Row(j - 1, CutRow(j))]

IsMarker(r) == is_marker_row(r)
IsBlank(r) == all_na(r) \/ all_blank(r)
IsHeader(r) == is_header_row(r)

\* the table entering the continuation scan
Entering == SelectSeq(CutRows, LAMBDA r : ~IsMarker(r) /\ ~IsBlank(r) /\ ~IsHeader(r))

AddInfo(r) == astype_str(iloc(r, AddInfoPos))

\* ---------------------------------------------------------------------- C1
\* top to bottom, each continuation row merged into the last row kept
RECURSIVE Cascade(_, _)
Cascade(rows, kept) ==
  IF rows = <<>> THEN kept
  ELSE IF kept # <<>> /\ is_continuation(Head(rows))
       THEN Cascade(Tail(rows),
                    [kept EXCEPT ![Len(kept)].cells[AddInfoPos + 1] =
                       Str(AddInfo(kept[Len(kept)]) \o <<" ">> \o AddInfo(Head(rows)))])
       ELSE Cascade(Tail(rows), Append(kept, Head(rows)))

\* C1: after the continuation rows are dropped, every kept row carries the
\* texts of all the continuation rows that followed it, in table order,
\* appended to its Additional Information; no text is lost on a dropped row.
C1_MergeCascades == pc = "numeric" => df.rows = Cascade(Entering, <<>>)

RECURSIVE DigitsOf(_)
DigitsOf(n) ==
  LET d == CHOOSE t \in Digits : DigitVal(t) = n % 10
  IN IF n < 10 THEN <<d>> ELSE Append(DigitsOf(n \div 10), d)

TwoDigits(n) == IF n < 10 THEN <<"0">> \o DigitsOf(n) ELSE DigitsOf(n)

\* a Ledger cell written back as raw text
RawText(c) ==
  CASE c.k = "str" -> c.v
    [] c.k = "null" -> <<>>
    [] c.k = "num" -> DigitsOf(c.v[1] \div Scale) \o <<".">> \o TwoDigits(c.v[1] % Scale)
    [] c.k = "date" -> DigitsOf(c.v[1]) \o <<"-">> \o TwoDigits(c.v[2])
                       \o <<"-">> \o TwoDigits(c.v[3])

RoundTrip(d) ==
  Frame(d.columns,
        [j \in DOMAIN d.rows |->
           Row(d.rows[j].idx,
               [c \in DOMAIN d.rows[j].cells |-> Str(RawText(d.rows[j].cells[c]))])])

\* C3: cleaning the Ledger written back as raw text removes no marker, blank
\* or header row: the noise removal has nothing left to do.
C3_NoiseRemovalIdempotent ==
  pc = "done" =>
    remove_header_rows(remove_blank_rows(remove_marker_rows(RoundTrip(df))))
      = RoundTrip(df)

\* ---------------------------------------------------------------------- C4
\* C4 as stated: no row kept by the continuation scan is a continuation
\* fragment, the first row of the scanned table included.
C4_NoFragmentKept ==
  pc = "numeric" => \A j \in DOMAIN df.rows : ~is_continuation(df.rows[j])

\* C4 as amended: no row kept by the continuation scan, other than the first
\* row of the scanned table, is a continuation fragment.
C4_NoFragmentBelowFirst ==
  pc = "numeric" =>
    \A j \in DOMAIN df.rows : j >= 2 => ~is_continuation(df.rows[j])

C4_Witness ==
  /\ pc = "numeric"
  /\ Len(rows_to_drop) >= 1
  /\ Len(df.rows) >= 2
  /\ \E j \in DOMAIN df.rows : df.rows[j].idx # j - 1

\* ------------------------------------------------------------ C5, C6, C7
Cell(v, r, name) == r.cells[col_pos(v.columns, name)]

\* the rows of a view above its last row
Body(v) == SubSeq(v.rows, 1, Len(v.rows) - 1)
Last(v) == v.rows[Len(v.rows)]

RECURSIVE Total(_, _, _)
Total(v, rows, name) ==
  IF rows = <<>> THEN 0
  ELSE LET a == Cell(v, Head(rows), name)
       IN (IF a.k = "num" THEN a.v[1] ELSE 0) + Total(v, Tail(rows), name)

TrailerOf(v, flag, amount) ==
  /\ Len(v.rows) >= 1
  /\ Cell(v, Last(v), "No.") = Str(<<"TOTAL">>)
  /\ \A j \in DOMAIN Body(v) : Cell(v, Body(v)[j], "No.") # Str(<<"TOTAL">>)
  /\ Cell(v, Last(v), flag) = Num(Len(Body(v)) * Scale)
  /\ Cell(v, Last(v), amount) = Num(Total(v, Body(v), amount))

\* C5: each view ends with exactly one TOTAL row; its flag field is the
\* number of rows above it and its amount field is their sum, the rows
\* without an amount counting as nothing.
C5_TrailerTotals ==
  pc = "done" =>
    /\ TrailerOf(df_debit, "DR", "Amount_DR")
    /\ TrailerOf(df_credit, "CR", "Amount_CR")

C5_Witness ==
  /\ pc = "done"
  /\ Len(df_debit.rows) >= 3
  /\ \E j \in DOMAIN Body(df_debit) :
       Cell(df_debit, Body(df_debit)[j], "Amount_DR") = NaN
  /\ Cell(df_debit, Last(df_debit), "Amount_DR").v[1] > 0
  /\ Len(df_credit.rows) >= 2

\* how many times x occurs in s
Occurs(s, x) == Cardinality({j \in DOMAIN s : s[j] = x})

\* the cells of a Ledger row that a view keeps
Projected(v, r) == [q \in DOMAIN v.columns |-> Cell(df, r, v.columns[q])]

MembersOf(v, flag) ==
  LET body == [j \in DOMAIN Body(v) |-> Body(v)[j].cells]
      want == [j \in DOMAIN df.rows |-> Projected(v, df.rows[j])]
  IN /\ \A j \in DOMAIN Body(v) : notna(Cell(v, Body(v)[j], flag))
     /\ \A j \in DOMAIN df.rows :
          Occurs(body, want[j]) =
            Cardinality({q \in DOMAIN df.rows :
                           want[q] = want[j] /\ notna(Cell(df, df.rows[q], flag))})
     /\ Len(body) = Cardinality({q \in DOMAIN df.rows : notna(Cell(df, df.rows[q], flag))})

\* C6: above its TOTAL row the Debit view holds exactly the Ledger rows
\* whose DR is not null, each once, and the Credit view those whose CR is
\* not null.
C6_ViewMembership ==
  pc = "done" => MembersOf(df_debit, "DR") /\ MembersOf(df_credit, "CR")

C6_Witness ==
  /\ pc = "done"
  /\ \E j \in DOMAIN df.rows :
       notna(Cell(df, df.rows[j], "DR")) /\ notna(Cell(df, df.rows[j], "CR"))
  /\ \E j \in DOMAIN df.rows :
       ~notna(Cell(df, df.rows[j], "DR")) /\ ~notna(Cell(df, df.rows[j], "CR"))
  /\ \E j \in DOMAIN df.rows :
       notna(Cell(df, df.rows[j], "DR")) /\ ~notna(Cell(df, df.rows[j], "CR"))

\* x <= y on nullable numbers: a comparison with NaN is false
Leq(x, y) == x.k = "num" /\ y.k = "num" /\ x.v[1] <= y.v[1]

\* C7 as stated: above the TOTAL row every row's amount is <= the amount of
\* the row after it.
C7_SortedByAmount ==
  pc = "done" =>
    /\ \A j \in 1..(Len(Body(df_debit)) - 1) :
         Leq(Cell(df_debit, df_debit.rows[j], "Amount_DR"),
             Cell(df_debit, df_debit.rows[j + 1], "Amount_DR"))
    /\ \A j \in 1..(Len(Body(df_credit)) - 1) :
         Leq(Cell(df_credit, df_credit.rows[j], "Amount_CR"),
             Cell(df_credit, df_credit.rows[j + 1], "Amount_CR"))

NullsLast(v, amount) ==
  /\ Len(v.rows) >= 1
  /\ Cell(v, Last(v), "No.") = Str(<<"TOTAL">>)
  /\ \A j \in 1..(Len(Body(v)) - 1) :
       LET x == Cell(v, v.rows[j], amount)
           y == Cell(v, v.rows[j + 1], amount)
       IN Leq(x, y) \/ y = NaN

\* C7 as amended: above the TOTAL row, which is last, the rows with an
\* amount come first in non-decreasing order of amount and the rows without
\* an amount come after them.
C7_SortedNullsLast ==
  pc = "done" =>
    NullsLast(df_debit, "Amount_DR") /\ NullsLast(df_credit, "Amount_CR")

C7_Witness ==
  /\ pc = "done"
  /\ Len(df_debit.rows) >= 4
  /\ Cell(df_debit, df_debit.rows[3], "Amount_DR") = NaN
  /\ Cell(df_debit, df_debit.rows[1], "No.") # Cell(df, df.rows[1], "No.")
  /\ Len(df_credit.rows) >= 3
  /\ Cell(df_credit, df_credit.rows[1], "Amount_CR")
       # Cell(df_credit, df_credit.rows[2], "Amount_CR")

\* ---------------------------------------------------------------------- C8
Markers == Cardinality({j \in DOMAIN CutRows : IsMarker(CutRows[j])})

Blanks ==
  Cardinality({j \in DOMAIN CutRows : ~IsMarker(CutRows[j]) /\ IsBlank(CutRows[j])})

Headers ==
  Cardinality({j \in DOMAIN CutRows :
                 ~IsMarker(CutRows[j]) /\ ~IsBlank(CutRows[j]) /\ IsHeader(CutRows[j])})

\* C8: the rows of the Ledger and the marker, blank, header and continuation
\* rows removed add up to the rows of the concatenated table, from the drop
\* of the continuation rows to the end of the call.
C8_RowConservation ==
  pc \in {"numeric", "dates", "debit", "credit", "reset", "save", "done"} =>
    Len(df.rows) + Markers + Blanks + Headers + Len(rows_to_drop) = Len(CutRows)

C8_Witness ==
  /\ pc = "done"
  /\ Len(df.rows) >= 1
  /\ Len(rows_to_drop) >= 1
  /\ Markers + Blanks + Headers >= 1

\* ---------------------------------------------------------------------- C9
NumericPositions == {col_pos(ColumnNames, num_cols[q]) : q \in DOMAIN num_cols}
DatePosition == col_pos(ColumnNames, "Value Date")

\* the value of the texts the inputs hold
Parsed(c) ==
  CASE c = Text("1") -> Num(1 * Scale)
    [] c = Text("2") -> Num(2 * Scale)
    [] c = Text("7") -> Num(7 * Scale)
    [] c = Str(<<" ", "1">>) -> Num(1 * Scale)
    [] c = Str(<<"1", "0", "0">>) -> Num(100 * Scale)
    [] c = Str(<<"5", "0", ".", "0", "0">>) -> Num(50 * Scale)
    [] c = Str(<<"1", ",", "2", "5", "0", ".", "5", "0">>) -> Num(1250 * Scale + 50)
    [] c = Str(<<"0", "1", "/", "0", "2", "/", "2", "0", "2", "4">>) -> Date(2024, 2, 1)
    [] OTHER -> NaN

SameRows(d, e) ==
  /\ Len(e.rows) = Len(d.rows)
  /\ e.columns = d.columns
  /\ \A j \in DOMAIN d.rows : e.rows[j].idx = d.rows[j].idx

C9_Step ==
  pc \in {"numeric", "dates"} =>
    /\ pc' # "raised" /\ raised' = "none"
    /\ SameRows(df, df')
    /\ \A j \in DOMAIN df.rows : \A c \in 1..SchemaCols :
         LET mine == IF pc = "numeric" THEN c \in NumericPositions
                     ELSE c = DatePosition
         IN df'.rows[j].cells[c] =
              IF mine THEN Parsed(df.rows[j].cells[c]) ELSE df.rows[j].cells[c]

\* C9: the numeric coercion and the date parsing give each cell of their
\* columns its parsed value or null, raise nothing, keep every row and
\* leave the other cells as they were.
C9_CoercionNeverFatal == [][C9_Step]_vars

C9_Witness ==
  /\ pc = "debit"
  /\ \E j \in DOMAIN df.rows :
       /\ iloc(df.rows[j], CreditAmount) = Num(1250 * Scale + 50)
       /\ iloc(df.rows[j], 1) = NaN
  /\ \E j \in DOMAIN df.rows :
       /\ iloc(df.rows[j], DebitAmount) = NaN
       /\ iloc(df.rows[j], DebitFlag) = Num(1 * Scale)
       /\ iloc(df.rows[j], 0) = NaN
  /\ \E j \in DOMAIN df.rows : iloc(df.rows[j], 1) = Date(2024, 2, 1)

\* --------------------------------------------------------------------- C10
CellsOf(d) == [j \in DOMAIN d.rows |-> d.rows[j].cells]

C10_Step ==
  pc \in {"debit", "credit", "reset", "save"} =>
    CellsOf(df') = CellsOf(df) /\ df'.columns = df.columns

C10_RawOrder ==
  pc = "reset" =>
    \A a, b \in DOMAIN df.rows : a < b => df.rows[a].idx < df.rows[b].idx

C10_Final ==
  pc = "done" =>
    /\ df.columns = ColumnNames
    /\ \A j \in DOMAIN df.rows :
         /\ df.rows[j].idx = j - 1
         /\ Len(df.rows[j].cells) = SchemaCols
         /\ iloc(df.rows[j], 0) # Str(<<"TOTAL">>)
    /\ workbook.Cleaned = sheet(df)

\* C10: deriving the views and re-indexing leave the Ledger's rows, cells,
\* fields and order as the date parsing left them (the order of the raw
\* table); the Ledger has no TOTAL row and is indexed 0..n-1.
C10_LedgerUntouched == [][C10_Step]_vars /\ []C10_RawOrder /\ []C10_Final

C10_Witness ==
  /\ pc = "done"
  /\ Len(df.rows) >= 2
  /\ Len(df.rows) < Len(CutRows)
  /\ Len(df_debit.rows) >= 3
  /\ Cell(df_debit, df_debit.rows[1], "Amount_DR") # Cell(df, df.rows[1], "Amount_DR")

====
